---- MODULE Spec2Model ----
(***************************************************************************)
(* Ping-Gamify backend: the document store (users, student profiles,       *)
(* badges, courses, skills, tasks, progress records, groups) and the route *)
(* handlers that read and write it.  Every handler is one action; the last *)
(* HTTP response is kept in resp.                                          *)
(***************************************************************************)
EXTENDS Integers, Sequences, FiniteSets, TLC

VARIABLES
  users,      \* User collection: id -> [name, role, enrolledCourses, studentProfile]
  students,   \* Student collection: id -> [name, badges]
  badges,     \* Badge collection: id -> [criteria]
  courses,    \* Course collection: id -> [coach, students, skills]
  skills,     \* Skill collection: id -> [course, tasks]
  tasks,      \* Task collection: id -> [skill]
  progress,   \* Progress collection: <<user, course>> -> progress document
  groups,     \* Group collection: id -> [name, creator, members, coach, invitations]
  nextId,     \* next fresh ObjectId of each collection
  resp,       \* the last HTTP response, with the request it answers
  calc,       \* input and output of a schema method evaluated on its own
  inflight    \* complete-task requests between two awaits: request -> locals

vars == <<users, students, badges, courses, skills, tasks, progress, groups,
          nextId, resp, calc, inflight>>

store == <<users, students, badges, courses, skills, tasks, progress, groups>>

----------------------------------------------------------------------------
(* Bounds of the model *)

MaxCatalog == 3
MaxUploads == 1
MaxGroups == 1
MaxMembers == 2
MaxInvites == 1
MaxCount == 8
MaxEntries == 3
MaxBadgeTasks == 3
MaxProfiles == 4

(* Program constants *)

BadgeThreshold == 5
MinRating == 1
MaxRating == 5

NoId == 0
NoRating == 0

----------------------------------------------------------------------------
(* Array helpers (JavaScript / Mongoose arrays are sequences) *)

Includes(arr, x) == \E i \in 1..Len(arr) : arr[i] = x

Pull(arr, x) == SelectSeq(arr, LAMBDA y : y # x)

Range(arr) == {arr[i] : i \in 1..Len(arr)}

Occurrences(arr, x) == Cardinality({i \in 1..Len(arr) : arr[i] = x})

RECURSIVE SumOver(_, _)
SumOver(S, f) ==
  IF S = {} THEN 0
  ELSE LET x == CHOOSE y \in S : TRUE
       IN  f[x] + SumOver(S \ {x}, f)

Remove(coll, ids) == [i \in (DOMAIN coll) \ ids |-> coll[i]]

Abs(n) == IF n < 0 THEN -n ELSE n

----------------------------------------------------------------------------
(* Populations *)

UserIds == {"u1", "u2", "u3"}

FreshCourse == nextId.course
FreshSkill == nextId.skill
FreshTask == nextId.task
FreshGroup == nextId.group

\* ids a client can have learnt: every id ever handed out, deleted or not
CourseIds == 1..(nextId.course - 1)
SkillIds == 1..(nextId.skill - 1)
TaskIds == 1..(nextId.task - 1)
GroupIds == 1..(nextId.group - 1)

Response(op, status, caller, course, task) ==
  [op |-> op, status |-> status, caller |-> caller, course |-> course,
   task |-> task, group |-> NoId, newBadges |-> <<>>, saved |-> FALSE]

\* an error response: the status and the route that sent it
Failure(op, status) == Response(op, status, "-", NoId, NoId)

NoResponse == Failure("none", 0)

\* courses, skills and tasks created so far
CatalogSize == (nextId.course - 1) + (nextId.skill - 1) + (nextId.task - 1)

NoCalc == [fn |-> "none", completed |-> 0, total |-> 0, ratings |-> <<>>, out |-> -1]

----------------------------------------------------------------------------
(* Schemas: documents as Mongoose builds them, defaults applied *)

\* Dates are kept as set (TRUE) or not set (FALSE).  seenByStudent is no path
\* of taskProgressSchema: it is what tp.seenByStudent reads on a stored entry.
NewTaskProgress(t) ==
  [task |-> t, completed |-> FALSE, completedAt |-> FALSE,
   coachRating |-> NoRating,
   coachFeedback |-> "", coachRatedAt |-> FALSE,
   submittedForReview |-> FALSE, submittedAt |-> FALSE,
   studentUploads |-> <<>>, reviewed |-> FALSE, seenByStudent |-> FALSE]

NewProgress ==
  [completedTasks |-> <<>>, taskProgress |-> <<>>, totalTasks |-> 0,
   completedTasksCount |-> 0, averageRating |-> 0]

\* Math.round(p / q) for p >= 0, q > 0: halves round up
MathRound(p, q) == (2 * p + q) \div (2 * q)

\* a percentage that truncates instead of rounding
TruncatedPercentage(doc) ==
  IF doc.totalTasks = 0 THEN 0
  ELSE (doc.completedTasksCount * 100) \div doc.totalTasks

\* progressSchema.methods.getCompletionPercentage
getCompletionPercentage(doc) ==
  IF doc.totalTasks = 0 THEN 0
  ELSE MathRound(doc.completedTasksCount * 100, doc.totalTasks)

\* a filter that keeps the unrated entries
AllTaskProgress(doc) == doc.taskProgress

\* this.taskProgress.filter(tp => tp.coachRating !== null)
RatedTasks(doc) ==
  SelectSeq(doc.taskProgress, LAMBDA tp : tp.coachRating # NoRating)

RECURSIVE SumRatings(_)
SumRatings(arr) ==
  IF arr = <<>> THEN 0 ELSE Head(arr).coachRating + SumRatings(Tail(arr))

\* progressSchema.methods.getAverageRating, in tenths (45 is 4.5)
getAverageRating(doc) ==
  LET ratedTasks == RatedTasks(doc)
  IN  IF Len(ratedTasks) = 0 THEN 0
      ELSE MathRound(SumRatings(ratedTasks) * 10, Len(ratedTasks))

----------------------------------------------------------------------------
(* Queries *)

\* Skill.find({ course: c })
SkillsOfCourse(c) == {s \in DOMAIN skills : skills[s].course = c}

\* Task.find({ skill: s })
TasksOfSkill(s) == {t \in DOMAIN tasks : tasks[t].skill = s}

\* skill.tasks after populate('tasks'): references that resolve
PopulatedTasks(s) == SelectSeq(skills[s].tasks, LAMBDA t : t \in DOMAIN tasks)

\* skills.flatMap(skill => skill.tasks.map(task => task._id)).length
AllTasksCount(c) ==
  SumOver(SkillsOfCourse(c), [s \in SkillsOfCourse(c) |-> Len(PopulatedTasks(s))])

\* the coach middleware: the caller's role must be coach
IsCoach(u) == users[u].role = "coach"

Reply(r) == resp' = r

\* a handler that answers without writing
Answer(r) ==
  /\ Reply(r)
  /\ UNCHANGED <<users, students, badges, courses, skills, tasks, progress,
                 groups, nextId, calc, inflight>>

----------------------------------------------------------------------------
(* Course catalog routes *)

\* POST /courses
CreateCourse(u) ==
  IF ~IsCoach(u) THEN Answer(Failure("createCourse", 401))
  ELSE
    /\ CatalogSize < MaxCatalog
    /\ courses' = courses @@
         (FreshCourse :> [coach |-> u, students |-> <<>>, skills |-> <<>>])
    /\ nextId' = [nextId EXCEPT !.course = @ + 1]
    /\ Reply(Response("createCourse", 201, u, FreshCourse, NoId))
    /\ UNCHANGED <<users, students, badges, skills, tasks, progress, groups, calc, inflight>>

\* POST /skills/add
AddSkill(u, c, bodyOk) ==
  CASE ~IsCoach(u) -> Answer(Failure("addSkill", 401))
    [] ~bodyOk -> Answer(Failure("addSkill", 400))
    [] c \notin DOMAIN courses -> Answer(Failure("addSkill", 404))
    [] courses[c].coach # u -> Answer(Failure("addSkill", 401))
    [] OTHER ->
         /\ CatalogSize < MaxCatalog
         /\ skills' = skills @@ (FreshSkill :> [course |-> c, tasks |-> <<>>])
         /\ courses' = [courses EXCEPT ![c].skills = Append(@, FreshSkill)]
         /\ nextId' = [nextId EXCEPT !.skill = @ + 1]
         /\ Reply(Response("addSkill", 200, u, c, NoId))
         /\ UNCHANGED <<users, students, badges, tasks, progress, groups, calc, inflight>>

\* POST /skills/:skillId/tasks
AddTask(u, s, bodyOk) ==
  CASE ~IsCoach(u) -> Answer(Failure("addTask", 401))
    [] ~bodyOk -> Answer(Failure("addTask", 400))
    [] s \notin DOMAIN skills -> Answer(Failure("addTask", 404))
    \* course.coach of a missing course throws: caught, 400
    [] skills[s].course \notin DOMAIN courses ->
         Answer(Failure("addTask", 400))
    [] courses[skills[s].course].coach # u ->
         Answer(Failure("addTask", 401))
    [] OTHER ->
         /\ CatalogSize < MaxCatalog
         /\ tasks' = tasks @@ (FreshTask :> [skill |-> s])
         /\ skills' = [skills EXCEPT ![s].tasks = Append(@, FreshTask)]
         /\ nextId' = [nextId EXCEPT !.task = @ + 1]
         /\ Reply(Response("addTask", 201, u, skills[s].course, FreshTask))
         /\ UNCHANGED <<users, students, badges, courses, progress, groups, calc, inflight>>

\* DELETE /skills/tasks/:taskId
DeleteTask(u, t) ==
  CASE ~IsCoach(u) -> Answer(Failure("deleteTask", 401))
    [] t \notin DOMAIN tasks -> Answer(Failure("deleteTask", 404))
    [] tasks[t].skill \notin DOMAIN skills ->
         \* orphaned task: deleted without an ownership check
         /\ tasks' = Remove(tasks, {t})
         /\ Reply(Response("deleteTask", 200, u, NoId, t))
         /\ UNCHANGED <<users, students, badges, courses, skills, progress,
                        groups, nextId, calc, inflight>>
    [] \/ skills[tasks[t].skill].course \notin DOMAIN courses
       \/ courses[skills[tasks[t].skill].course].coach # u ->
         Answer(Failure("deleteTask", 401))
    [] OTHER ->
         /\ skills' = [skills EXCEPT ![tasks[t].skill].tasks = Pull(@, t)]
         /\ tasks' = Remove(tasks, {t})
         /\ Reply(Response("deleteTask", 200, u, skills[tasks[t].skill].course, t))
         /\ UNCHANGED <<users, students, badges, courses, progress, groups,
                        nextId, calc, inflight>>

\* DELETE /skills/:skillId
DeleteSkill(u, s) ==
  CASE ~IsCoach(u) -> Answer(Failure("deleteSkill", 401))
    [] s \notin DOMAIN skills -> Answer(Failure("deleteSkill", 404))
    [] \/ skills[s].course \notin DOMAIN courses
       \/ courses[skills[s].course].coach # u ->
         Answer(Failure("deleteSkill", 401))
    [] OTHER ->
         /\ tasks' = Remove(tasks, TasksOfSkill(s))
         /\ courses' = [courses EXCEPT ![skills[s].course].skills = Pull(@, s)]
         /\ skills' = Remove(skills, {s})
         /\ Reply(Response("deleteSkill", 200, u, skills[s].course, NoId))
         /\ UNCHANGED <<users, students, badges, progress, groups, nextId, calc, inflight>>

\* a delete-course that leaves the enrolled users as they are
UsersKept(c) == users

\* User.updateMany({ enrolledCourses: c }, { $pull: { enrolledCourses: c } })
UsersWithoutCourse(c) ==
  [x \in DOMAIN users |-> [users[x] EXCEPT !.enrolledCourses = Pull(@, c)]]

\* a delete-course that forgets the progress records
ProgressKept(c) == progress

\* Progress.deleteMany({ course: c })
ProgressWithoutCourse(c) == Remove(progress, {k \in DOMAIN progress : k[2] = c})

\* DELETE /courses/:id
DeleteCourse(u, c) ==
  CASE ~IsCoach(u) -> Answer(Failure("deleteCourse", 401))
    [] c \notin DOMAIN courses -> Answer(Failure("deleteCourse", 404))
    [] courses[c].coach # u -> Answer(Failure("deleteCourse", 401))
    [] OTHER ->
         /\ users' = UsersWithoutCourse(c)
         /\ tasks' = Remove(tasks, UNION {TasksOfSkill(s) : s \in SkillsOfCourse(c)})
         /\ skills' = Remove(skills, SkillsOfCourse(c))
         /\ progress' = ProgressWithoutCourse(c)
         /\ courses' = Remove(courses, {c})
         /\ Reply(Response("deleteCourse", 200, u, c, NoId))
         /\ UNCHANGED <<students, badges, groups, nextId, calc, inflight>>

\* POST /courses/:id/enroll
Enroll(u, c) ==
  CASE c \notin DOMAIN courses -> Answer(Failure("enroll", 404))
    [] courses[c].coach = u -> Answer(Failure("enroll", 400))
    [] Includes(users[u].enrolledCourses, c) ->
         Answer(Failure("enroll", 400))
    [] OTHER ->
         /\ courses' = IF Includes(courses[c].students, u) THEN courses
                       ELSE [courses EXCEPT ![c].students = Append(@, u)]
         /\ users' = [users EXCEPT ![u].enrolledCourses = Append(@, c)]
         /\ Reply(Response("enroll", 200, u, c, NoId))
         /\ UNCHANGED <<students, badges, skills, tasks, progress, groups,
                        nextId, calc, inflight>>

\* POST /courses/:id/unenroll
Unenroll(u, c) ==
  IF c \notin DOMAIN courses THEN Answer(Failure("unenroll", 404))
  ELSE
    /\ courses' = [courses EXCEPT ![c].students = Pull(@, u)]
    /\ users' = [users EXCEPT ![u].enrolledCourses = Pull(@, c)]
    /\ Reply(Response("unenroll", 200, u, c, NoId))
    /\ UNCHANGED <<students, badges, skills, tasks, progress, groups, nextId, calc, inflight>>

----------------------------------------------------------------------------
(* Progress routes *)

\* Progress.findOne({ user, course }) || new Progress({ user, course, completedTasks: [] })
FindOrNewProgress(u, c) ==
  IF <<u, c>> \in DOMAIN progress THEN progress[<<u, c>>] ELSE NewProgress

\* progress.save(): insert or replace the document of (user, course)
SaveProgress(u, c, doc) ==
  [k \in (DOMAIN progress) \cup {<<u, c>>} |->
     IF k = <<u, c>> THEN doc ELSE progress[k]]

\* a push without the includes test
AddCompletedAlways(arr, t) == Append(arr, t)

\* if (!completedTasks.includes(taskId)) completedTasks.push(taskId)
AddCompleted(arr, t) == IF Includes(arr, t) THEN arr ELSE Append(arr, t)

\* a complete-task that counts up instead of taking the length
CompletedDocCountingUp(u, c, t) ==
  LET doc == FindOrNewProgress(u, c)
  IN  [doc EXCEPT !.completedTasks = AddCompleted(doc.completedTasks, t),
                  !.completedTasksCount = @ + 1,
                  !.totalTasks = AllTasksCount(c)]

\* the document complete-task saves
CompletedDoc(u, c, t) ==
  LET doc == FindOrNewProgress(u, c)
      completedTasks == AddCompleted(doc.completedTasks, t)
  IN  [doc EXCEPT !.completedTasks = completedTasks,
                  !.completedTasksCount = Len(completedTasks),
                  !.totalTasks = AllTasksCount(c)]

\* Student.findOne({ name }): the first match in insertion order, NoId if none
FindStudentByName(name) ==
  LET found == {p \in DOMAIN students : students[p].name = name}
  IN  IF found = {} THEN NoId
      ELSE CHOOSE p \in found : \A q \in found : p <= q

\* Badge.findOne({ criteria: 'Complete 5 tasks' })
FindBadge ==
  LET found == {b \in DOMAIN badges : badges[b].criteria = "Complete 5 tasks"}
  IN  IF found = {} THEN NoId
      ELSE CHOOSE b \in found : \A q \in found : b <= q

\* a count that looks at one record of the user only
TotalInOneCourse(coll, u) ==
  LET mine == {k \in DOMAIN coll : k[1] = u}
  IN  IF mine = {} THEN 0
      ELSE Len(coll[CHOOSE k \in mine :
                      \A j \in mine : Len(coll[j].completedTasks)
                                         <= Len(coll[k].completedTasks)].completedTasks)

\* Progress.aggregate: $match user, $unwind completedTasks, count
TotalCompleted(coll, u) ==
  LET mine == {k \in DOMAIN coll : k[1] = u}
  IN  SumOver(mine, [k \in mine |-> Len(coll[k].completedTasks)])

\* a badge logic that does not look at the badges already held
GrantsBadgeAgain(student, badge, totalCompleted) ==
  /\ student # NoId
  /\ badge # NoId
  /\ totalCompleted >= BadgeThreshold

\* whether the badge logic grants the badge to the student profile
GrantsBadge(student, badge, totalCompleted) ==
  /\ student # NoId
  /\ badge # NoId
  /\ totalCompleted >= BadgeThreshold
  /\ ~Includes(students[student].badges, badge)

\* POST /progress/complete-task
CompleteTask(u, c, t) ==
  LET saved == SaveProgress(u, c, CompletedDoc(u, c, t))
      student == FindStudentByName(users[u].name)
      badge == FindBadge
      grant == GrantsBadge(student, badge, TotalCompleted(saved, u))
  IN  /\ progress' = saved
      /\ students' = IF grant
                     THEN [students EXCEPT ![student].badges = Append(@, badge)]
                     ELSE students
      /\ Reply([Response("completeTask", 201, u, c, t) EXCEPT
                  !.newBadges = IF grant THEN <<badge>> ELSE <<>>])
      /\ UNCHANGED <<users, badges, courses, skills, tasks, groups, nextId, calc, inflight>>

----------------------------------------------------------------------------
(* POST /progress/complete-task, one step per database round trip: the
   handler runs from one await to the next without interruption, and another
   request may run between two awaits *)

\* the two requests in flight
Requests == {"a", "b"}

\* the locals of a request that has not arrived
IdleRequest ==
  [pc |-> "idle", user |-> "-", course |-> NoId, task |-> NoId,
   isNew |-> FALSE, loaded |-> NewProgress, doc |-> NewProgress,
   early |-> FALSE, student |-> NoId, held |-> <<>>, status |-> 0,
   op |-> "none", files |-> <<>>]

NoRequests == [r \in Requests |-> IdleRequest]

\* the positions of a request that has not yet saved its document
Unsaved == {"idle", "found", "counted", "submitting"}

\* an insert without the unique index
NoUniqueIndex(u, c) == FALSE

\* the unique index on (user, course) refuses the insert of a second document
DuplicateKey(u, c) == <<u, c>> \in DOMAIN progress

\* what completedTasks.push() has appended to the array since it was loaded
Pushed(loaded, doc) ==
  SubSeq(doc.completedTasks, Len(loaded.completedTasks) + 1,
         Len(doc.completedTasks))

\* a save that writes the whole document back
OverwrittenDoc(stored, loaded, doc) == doc

\* doc.save() of a loaded document: an update of the modified paths only,
\* the pushed ids as $push onto the stored array, the changed counts as $set
UpdatedDoc(stored, loaded, doc) ==
  [stored EXCEPT
     !.completedTasks = @ \o Pushed(loaded, doc),
     !.completedTasksCount =
        IF doc.completedTasksCount # loaded.completedTasksCount
        THEN doc.completedTasksCount ELSE @,
     !.totalTasks =
        IF doc.totalTasks # loaded.totalTasks THEN doc.totalTasks ELSE @]

Step(r, locals) ==
  inflight' = [inflight EXCEPT ![r] = locals]

\* lines 33-58: findOne or new Progress, push, count
FindProgress(r, u, c, t) ==
  LET loaded == FindOrNewProgress(u, c)
      completedTasks == AddCompleted(loaded.completedTasks, t)
  IN  /\ inflight[r].pc = "idle"
      /\ Step(r, [IdleRequest EXCEPT
                    !.pc = "found", !.op = "completeTask",
                    !.user = u, !.course = c, !.task = t,
                    !.isNew = <<u, c>> \notin DOMAIN progress,
                    !.loaded = loaded,
                    !.doc = [loaded EXCEPT
                               !.completedTasks = completedTasks,
                               !.completedTasksCount = Len(completedTasks)],
                    !.early = \A s \in Requests \ {r} :
                                inflight[s].pc \in Unsaved])
      /\ UNCHANGED <<users, students, badges, courses, skills, tasks, progress,
                     groups, nextId, resp, calc>>

\* lines 60-62: Skill.find and the count of the tasks of the course
FindSkills(r) ==
  /\ inflight[r].pc = "found"
  /\ Step(r, [inflight[r] EXCEPT
                !.pc = "counted",
                !.doc = [@ EXCEPT !.totalTasks = AllTasksCount(inflight[r].course)]])
  /\ UNCHANGED <<users, students, badges, courses, skills, tasks, progress,
                 groups, nextId, resp, calc>>

\* line 64: progress.save(); an insert that the unique index on (user, course)
\* refuses, or an update that finds no document, throws and is answered 500
SaveFound(r) ==
  LET q == inflight[r]
      key == <<q.user, q.course>>
      refused == IF q.isNew THEN DuplicateKey(q.user, q.course)
                 ELSE key \notin DOMAIN progress
  IN  /\ q.pc = "counted"
      /\ IF refused
         THEN /\ Step(r, [q EXCEPT !.pc = "done", !.status = 500])
              /\ Reply(Failure("completeTask", 500))
              /\ UNCHANGED progress
         ELSE /\ Step(r, [q EXCEPT !.pc = "saved"])
              /\ progress' = SaveProgress(q.user, q.course,
                   IF q.isNew THEN q.doc
                   ELSE UpdatedDoc(progress[key], q.loaded, q.doc))
              /\ UNCHANGED resp
      /\ UNCHANGED <<users, students, badges, courses, skills, tasks, groups,
                     nextId, calc>>

\* line 69: Student.findOne({ name })
FindStudent(r) ==
  LET student == FindStudentByName(users[inflight[r].user].name)
  IN  /\ inflight[r].pc = "saved"
      /\ Step(r, [inflight[r] EXCEPT
                    !.pc = "student", !.student = student,
                    !.held = IF student = NoId THEN <<>>
                             ELSE students[student].badges])
      /\ UNCHANGED <<users, students, badges, courses, skills, tasks, progress,
                     groups, nextId, resp, calc>>

\* lines 71-89: the aggregate, Badge.findOne, the badge pushed and saved, 201
AwardBadge(r) ==
  LET q == inflight[r]
      badge == FindBadge
      grant == /\ q.student # NoId
               /\ badge # NoId
               /\ TotalCompleted(progress, q.user) >= BadgeThreshold
               /\ ~Includes(q.held, badge)
  IN  /\ q.pc = "student"
      /\ Step(r, [q EXCEPT !.pc = "done", !.status = 201])
      /\ students' = IF grant /\ q.student \in DOMAIN students
                     THEN [students EXCEPT ![q.student].badges = Append(@, badge)]
                     ELSE students
      /\ Reply([Response("completeTask", 201, q.user, q.course, q.task) EXCEPT
                  !.newBadges = IF grant THEN <<badge>> ELSE <<>>])
      /\ UNCHANGED <<users, badges, courses, skills, tasks, progress, groups,
                     nextId, calc>>

\* completedTasks after populate('completedTasks'): the tasks that still
\* exist; the stored array is not marked modified and keeps every id
PopulatedCompleted(doc) ==
  SelectSeq(doc.completedTasks, LAMBDA t : t \in DOMAIN tasks)

\* the document GET /progress/:courseId saves
RecalculatedDoc(u, c) ==
  [progress[<<u, c>>] EXCEPT
     !.completedTasksCount = Len(PopulatedCompleted(progress[<<u, c>>])),
     !.totalTasks = AllTasksCount(c)]

\* GET /progress/:courseId
GetProgress(u, c) ==
  /\ progress' = IF <<u, c>> \in DOMAIN progress
                 THEN SaveProgress(u, c, RecalculatedDoc(u, c))
                 ELSE progress
  /\ Reply(Response("getProgress", 200, u, c, NoId))
  /\ UNCHANGED <<users, students, badges, courses, skills, tasks, groups,
                 nextId, calc, inflight>>

\* progress.taskProgress.find(tp => tp.task.toString() === taskId): index, 0 if none
FindTaskProgress(doc, t) ==
  IF \E i \in 1..Len(doc.taskProgress) : doc.taskProgress[i].task = t
  THEN CHOOSE i \in 1..Len(doc.taskProgress) :
         /\ doc.taskProgress[i].task = t
         /\ \A j \in 1..(i - 1) : doc.taskProgress[j].task # t
  ELSE 0

\* The document submit-task saves.  An entry that exists is a subdocument and
\* takes the uploads; a missing one is pushed as a plain object, which
\* Mongoose casts to a new subdocument: the uploads and the flag then go to
\* the plain object and are not part of what is saved.
SubmittedDoc(u, c, t, files) ==
  LET doc == FindOrNewProgress(u, c)
      i == FindTaskProgress(doc, t)
  IN  IF i = 0
      THEN [doc EXCEPT !.taskProgress = Append(@, NewTaskProgress(t))]
      ELSE [doc EXCEPT !.taskProgress[i].studentUploads = @ \o files,
                       !.taskProgress[i].submittedForReview = TRUE,
                       !.taskProgress[i].submittedAt = TRUE]

\* a submit-task that takes an empty upload
NeverEmpty(files) == FALSE

\* !req.files || req.files.length === 0
NoFiles(files) == Len(files) = 0

\* POST /progress/submit-task
SubmitTask(u, c, t, files) ==
  IF NoFiles(files) THEN Answer(Failure("submitTask", 400))
  ELSE
    /\ LET i == FindTaskProgress(FindOrNewProgress(u, c), t)
       IN  i # 0 =>
             Len(FindOrNewProgress(u, c).taskProgress[i].studentUploads)
               + Len(files) <= MaxUploads
    /\ Reply(Response("submitTask", 201, u, c, t))
    /\ progress' = SaveProgress(u, c, SubmittedDoc(u, c, t, files))
    /\ UNCHANGED <<users, students, badges, courses, skills, tasks, groups,
                   nextId, calc, inflight>>

\* the arrays of the stored document have been pushed to since it was
\* loaded: its version key has moved on
VersionChanged(stored, loaded) ==
  \/ stored.completedTasks # loaded.completedTasks
  \/ Len(stored.taskProgress) # Len(loaded.taskProgress)
  \/ \E i \in DOMAIN loaded.taskProgress :
       stored.taskProgress[i].studentUploads # loaded.taskProgress[i].studentUploads

\* the local document of submit-task: an entry that exists takes the uploads,
\* a missing one is pushed as a plain object and cast to a new subdocument
SubmittedTo(loaded, t, files) ==
  LET i == FindTaskProgress(loaded, t)
  IN  IF i = 0
      THEN [loaded EXCEPT !.taskProgress = Append(@, NewTaskProgress(t))]
      ELSE [loaded EXCEPT !.taskProgress[i].studentUploads = @ \o files,
                          !.taskProgress[i].submittedForReview = TRUE,
                          !.taskProgress[i].submittedAt = TRUE]

\* progress.save() of submit-task on a loaded document: the new entry as a
\* $push onto the stored array, or the uploads and the flags of entry i
SubmittedUpdate(stored, loaded, t, files) ==
  LET i == FindTaskProgress(loaded, t)
  IN  IF i = 0
      THEN [stored EXCEPT !.taskProgress = Append(@, NewTaskProgress(t))]
      ELSE [stored EXCEPT !.taskProgress[i].studentUploads = @ \o files,
                          !.taskProgress[i].submittedForReview = TRUE,
                          !.taskProgress[i].submittedAt = TRUE]

\* submit-task up to its findOne (lines 127-153): the 400 for no files, or the
\* record loaded or built and the entry found or pushed
FindForSubmit(r, u, c, t, files) ==
  /\ inflight[r].pc = "idle"
  /\ IF NoFiles(files)
     THEN /\ Step(r, [IdleRequest EXCEPT
                        !.pc = "done", !.op = "submitTask", !.user = u,
                        !.course = c, !.task = t, !.status = 400])
          /\ Reply(Failure("submitTask", 400))
     ELSE /\ Step(r, [IdleRequest EXCEPT
                        !.pc = "submitting", !.op = "submitTask", !.user = u,
                        !.course = c, !.task = t, !.files = files,
                        !.isNew = <<u, c>> \notin DOMAIN progress,
                        !.loaded = FindOrNewProgress(u, c),
                        !.doc = SubmittedTo(FindOrNewProgress(u, c), t, files),
                        !.early = \A s \in Requests \ {r} :
                                    inflight[s].pc \in Unsaved])
          /\ UNCHANGED resp
  /\ UNCHANGED <<users, students, badges, courses, skills, tasks, progress,
                 groups, nextId, calc>>

\* submit-task from progress.save() on (lines 154-160).  An update of an entry
\* by its index carries the version the document was loaded with: when the
\* version has moved on, the save either throws a version error or is applied,
\* depending on which of its changes Mongoose versions
SaveSubmitted(r, versioned) ==
  LET q == inflight[r]
      key == <<q.user, q.course>>
      positional == ~q.isNew /\ FindTaskProgress(q.loaded, q.task) # 0
      refused == IF q.isNew THEN DuplicateKey(q.user, q.course)
                 ELSE \/ key \notin DOMAIN progress
                      \/ /\ positional /\ versioned
                         /\ VersionChanged(progress[key], q.loaded)
  IN  /\ q.pc = "submitting"
      /\ versioned => positional /\ key \in DOMAIN progress
                      /\ VersionChanged(progress[key], q.loaded)
      /\ IF refused
         THEN /\ Step(r, [q EXCEPT !.pc = "done", !.status = 500])
              /\ Reply(Failure("submitTask", 500))
              /\ UNCHANGED progress
         ELSE /\ Step(r, [q EXCEPT !.pc = "done", !.status = 201])
              /\ progress' = SaveProgress(q.user, q.course,
                   IF q.isNew THEN q.doc
                   ELSE SubmittedUpdate(progress[key], q.loaded, q.task, q.files))
              /\ Reply(Response("submitTask", 201, q.user, q.course, q.task))
      /\ UNCHANGED <<users, students, badges, courses, skills, tasks, groups,
                     nextId, calc>>

\* a validation without the upper limit
BadRatingBelow(rating) == rating = NoRating \/ rating < MinRating

\* !rating || rating < 1 || rating > 5
BadRating(rating) == rating = NoRating \/ rating < MinRating \/ rating > MaxRating

\* a rate-task that leaves the stored average as it was
StaleAverage(doc) == doc.averageRating

\* progress.averageRating = progress.getAverageRating()
RecalculatedAverage(doc) == getAverageRating(doc)

\* the document rate-task saves; feedback || '' is the feedback given, or ""
RatedDoc(student, c, i, rating, feedback) ==
  LET doc == [progress[<<student, c>>] EXCEPT
                !.taskProgress[i].coachRating = rating,
                !.taskProgress[i].coachFeedback = feedback,
                !.taskProgress[i].coachRatedAt = TRUE,
                !.taskProgress[i].submittedForReview = FALSE]
  IN  [doc EXCEPT !.averageRating = RecalculatedAverage(doc)]

\* the status rate-task answers with: the early returns in their order
RateTaskStatus(u, c, student, t, rating) ==
  CASE ~IsCoach(u) -> 401
    [] BadRating(rating) -> 400
    [] c \notin DOMAIN courses -> 404
    [] courses[c].coach # u -> 401
    [] <<student, c>> \notin DOMAIN progress -> 404
    [] FindTaskProgress(progress[<<student, c>>], t) = 0 -> 404
    [] OTHER -> 200

\* POST /courses/:id/rate-task
RateTask(u, c, student, t, rating, feedback) ==
  CASE RateTaskStatus(u, c, student, t, rating) # 200 ->
         Answer(Failure("rateTask", RateTaskStatus(u, c, student, t, rating)))
    [] OTHER ->
         /\ Reply(Response("rateTask", 200, u, c, t))
         /\ progress' = SaveProgress(student, c,
              RatedDoc(student, c, FindTaskProgress(progress[<<student, c>>], t),
                       rating, feedback))
         /\ UNCHANGED <<users, students, badges, courses, skills, tasks, groups,
                        nextId, calc, inflight>>

\* tp.reviewed && !tp.seenByStudent holds for some entry
SeenUpdated(doc) ==
  \E i \in DOMAIN doc.taskProgress :
    doc.taskProgress[i].reviewed /\ ~doc.taskProgress[i].seenByStudent

\* the document in memory after the forEach of mark-seen
MarkedDoc(doc) ==
  [doc EXCEPT !.taskProgress =
     [i \in DOMAIN doc.taskProgress |->
        IF doc.taskProgress[i].reviewed /\ ~doc.taskProgress[i].seenByStudent
        THEN [doc.taskProgress[i] EXCEPT !.seenByStudent = TRUE]
        ELSE doc.taskProgress[i]]]

\* What save() stores of the entries: seenByStudent is no path of
\* taskProgressSchema, the assignment makes a property of the object in memory
\* and the stored entry has none.
StoredDoc(doc) ==
  [doc EXCEPT !.taskProgress =
     [i \in DOMAIN doc.taskProgress |->
        [doc.taskProgress[i] EXCEPT !.seenByStudent = FALSE]]]

\* PATCH /progress/:courseId/mark-seen; saved tells whether save() was called
MarkSeen(u, c) ==
  IF <<u, c>> \notin DOMAIN progress THEN Answer(Failure("markSeen", 404))
  ELSE
    /\ progress' = IF SeenUpdated(progress[<<u, c>>])
                   THEN SaveProgress(u, c, StoredDoc(MarkedDoc(progress[<<u, c>>])))
                   ELSE progress
    /\ Reply([Response("markSeen", 200, u, c, NoId) EXCEPT
                !.saved = SeenUpdated(progress[<<u, c>>])])
    /\ UNCHANGED <<users, students, badges, courses, skills, tasks, groups,
                   nextId, calc, inflight>>

----------------------------------------------------------------------------
(* The script syncCompletedTasksToTaskProgress *)

\* a loop body that adds missing entries and leaves the others alone
SyncedEntryAddingOnly(entries, t) ==
  IF FindTaskProgress([taskProgress |-> entries], t) = 0
  THEN Append(entries, [NewTaskProgress(t) EXCEPT !.completed = TRUE,
                                                  !.completedAt = TRUE])
  ELSE entries

\* the body of the loop over completedTasks: the entry of the task is pushed
\* as completed, or marked completed when it is not
SyncedEntry(entries, t) ==
  LET i == FindTaskProgress([taskProgress |-> entries], t)
  IN  CASE i = 0 ->
             Append(entries, [NewTaskProgress(t) EXCEPT !.completed = TRUE,
                                                        !.completedAt = TRUE])
        [] i # 0 /\ ~entries[i].completed ->
             [entries EXCEPT ![i].completed = TRUE, ![i].completedAt = TRUE]
        [] OTHER -> entries

RECURSIVE SyncedEntries(_, _)
SyncedEntries(entries, done) ==
  IF done = <<>> THEN entries
  ELSE SyncedEntries(SyncedEntry(entries, Head(done)), Tail(done))

\* the document the script saves (when it has changed)
SyncedDoc(doc) ==
  [doc EXCEPT !.taskProgress = SyncedEntries(doc.taskProgress, doc.completedTasks)]

\* the collection after a run over every record
SyncedProgress(coll) == [k \in DOMAIN coll |-> SyncedDoc(coll[k])]

\* one run of the script; it answers no request
SyncCompletedTasksToTaskProgress ==
  /\ progress' = SyncedProgress(progress)
  /\ Reply(Response("sync", 0, "-", NoId, NoId))
  /\ UNCHANGED <<users, students, badges, courses, skills, tasks, groups,
                 nextId, calc, inflight>>

----------------------------------------------------------------------------
(* The catalog and progress specification *)

RegisteredUsers ==
  [u \in UserIds |->
     [name |-> u,
      role |-> IF u = "u3" THEN "student" ELSE "coach",
      enrolledCourses |-> <<>>,
      studentProfile |-> CHOOSE p \in 1..3 : <<"u1", "u2", "u3">>[p] = u]]

RegisteredStudents ==
  [p \in 1..3 |-> [name |-> <<"u1", "u2", "u3">>[p], badges |-> <<>>]]

SeededBadges == (1 :> [criteria |-> "Complete 5 tasks"])

FileLists == {<<>>, <<"a">>}

RatingInputs == {0, 4, 6}

Learners == {"u3"}

Owners == {"u1", "u3"}

Init ==
  /\ users = RegisteredUsers
  /\ students = RegisteredStudents
  /\ badges = SeededBadges
  /\ courses = <<>>
  /\ skills = <<>>
  /\ tasks = <<>>
  /\ progress = <<>>
  /\ groups = <<>>
  /\ nextId = [course |-> 1, skill |-> 1, task |-> 1, group |-> 1]
  /\ resp = NoResponse
  /\ calc = NoCalc
  /\ inflight = NoRequests

NextCatalog ==
  \/ \E u \in Owners : CreateCourse(u)
  \/ \E u \in UserIds, c \in CourseIds, bodyOk \in BOOLEAN : AddSkill(u, c, bodyOk)
  \/ \E u \in UserIds, s \in SkillIds, bodyOk \in BOOLEAN : AddTask(u, s, bodyOk)
  \/ \E u \in UserIds, t \in TaskIds : DeleteTask(u, t)
  \/ \E u \in UserIds, s \in SkillIds : DeleteSkill(u, s)
  \/ \E u \in UserIds, c \in CourseIds : DeleteCourse(u, c)
  \/ \E u \in Learners, c \in CourseIds : Enroll(u, c)
  \/ \E u \in Learners, c \in CourseIds : Unenroll(u, c)
  \/ \E u \in Learners, c \in CourseIds, t \in TaskIds : CompleteTask(u, c, t)
  \/ \E u \in Learners, c \in CourseIds : GetProgress(u, c)
  \/ \E u \in Learners, c \in CourseIds, t \in TaskIds, files \in FileLists :
       SubmitTask(u, c, t, files)
  \/ \E u \in Learners, c \in CourseIds : MarkSeen(u, c)

Next ==
  \/ NextCatalog
  \/ \E u \in UserIds, c \in CourseIds, student \in Learners, t \in TaskIds,
        rating \in RatingInputs : RateTask(u, c, student, t, rating, "")

Spec == Init /\ [][Next]_vars

\* the catalog, enrollment and completion routes without the coach's rating
SpecCatalog == Init /\ [][NextCatalog]_vars

----------------------------------------------------------------------------
(* Group routes *)

NoUser == "-"

GroupResponse(op, status, caller, g) ==
  [Response(op, status, caller, NoId, NoId) EXCEPT !.group = g]

\* a lookup that takes the first invitation, whoever it is for
FirstInvitation(g, u) == IF groups[g].invitations = <<>> THEN 0 ELSE 1

\* group.invitations.find(inv => inv.user.toString() === req.user._id.toString())
FindInvitation(g, u) ==
  IF \E i \in 1..Len(groups[g].invitations) : groups[g].invitations[i].user = u
  THEN CHOOSE i \in 1..Len(groups[g].invitations) :
         /\ groups[g].invitations[i].user = u
         /\ \A j \in 1..(i - 1) : groups[g].invitations[j].user # u
  ELSE 0

GroupUnchanged ==
  UNCHANGED <<users, students, badges, courses, skills, tasks, progress, calc, inflight>>

\* POST /groups/create: the name is a unique index, a duplicate fails the save
CreateGroup(u, name) ==
  IF \E g \in DOMAIN groups : groups[g].name = name
  THEN Answer(Failure("createGroup", 400))
  ELSE
    /\ FreshGroup <= MaxGroups
    /\ groups' = groups @@
         (FreshGroup :> [name |-> name, creator |-> u, members |-> <<u>>,
                         coach |-> NoUser, invitations |-> <<>>])
    /\ nextId' = [nextId EXCEPT !.group = @ + 1]
    /\ Reply(GroupResponse("createGroup", 201, u, FreshGroup))
    /\ GroupUnchanged

\* POST /groups/:groupId/invite
Invite(u, g, userId) ==
  CASE g \notin DOMAIN groups -> Answer(Failure("invite", 404))
    [] ~Includes(groups[g].members, u) -> Answer(Failure("invite", 403))
    [] OTHER ->
         /\ Len(groups[g].invitations) < MaxInvites
         /\ groups' = [groups EXCEPT ![g].invitations =
                         Append(@, [user |-> userId, status |-> "pending"])]
         /\ Reply(GroupResponse("invite", 200, u, g))
         /\ UNCHANGED nextId
         /\ GroupUnchanged

\* the values the invitation status enum accepts on save
StatusEnum == {"pending", "accepted", "declined"}

\* POST /groups/:groupId/respond
Respond(u, g, status) ==
  CASE g \notin DOMAIN groups -> Answer(Failure("respond", 404))
    [] FindInvitation(g, u) = 0 -> Answer(Failure("respond", 404))
    \* validation of the enum fails in save(): caught, 400
    [] status \notin StatusEnum -> Answer(Failure("respond", 400))
    [] OTHER ->
         /\ status = "accepted" => Len(groups[g].members) < MaxMembers
         /\ groups' = [groups EXCEPT
              ![g].invitations[FindInvitation(g, u)].status = status,
              ![g].members = IF status = "accepted" THEN Append(@, u) ELSE @]
         /\ Reply(GroupResponse("respond", 200, u, g))
         /\ UNCHANGED nextId
         /\ GroupUnchanged

\* POST /groups/:groupId/assign-coach
AssignCoach(u, g, coachId) ==
  CASE g \notin DOMAIN groups -> Answer(Failure("assignCoach", 404))
    [] groups[g].creator # u -> Answer(Failure("assignCoach", 403))
    [] OTHER ->
         /\ groups' = [groups EXCEPT ![g].coach = coachId]
         /\ Reply(GroupResponse("assignCoach", 200, u, g))
         /\ UNCHANGED nextId
         /\ GroupUnchanged

\* group.members.filter(m => m.toString() !== memberId)
WithoutMember(members, memberId) == Pull(members, memberId)

\* a remove-member open to every caller
AnyoneMayRemove(g, u) == TRUE

\* the negation of: creator !== user && (!group.coach || coach !== user)
MayRemove(g, u) ==
  \/ groups[g].creator = u
  \/ groups[g].coach # NoUser /\ groups[g].coach = u

\* POST /groups/:groupId/remove-member
RemoveMember(u, g, memberId) ==
  CASE g \notin DOMAIN groups -> Answer(Failure("removeMember", 404))
    [] ~MayRemove(g, u) -> Answer(Failure("removeMember", 403))
    [] OTHER ->
         /\ groups' = [groups EXCEPT ![g].members = WithoutMember(@, memberId)]
         /\ Reply(GroupResponse("removeMember", 200, u, g))
         /\ UNCHANGED nextId
         /\ GroupUnchanged

\* a leave route that lets everybody go
NobodyIsCreator(g, u) == FALSE

\* group.creator.toString() === req.user._id.toString()
IsCreator(g, u) == groups[g].creator = u

\* POST /groups/:groupId/leave
Leave(u, g) ==
  CASE g \notin DOMAIN groups -> Answer(Failure("leave", 404))
    [] IsCreator(g, u) -> Answer(Failure("leave", 403))
    [] OTHER ->
         /\ groups' = [groups EXCEPT ![g].members = WithoutMember(@, u)]
         /\ Reply(GroupResponse("leave", 200, u, g))
         /\ UNCHANGED nextId
         /\ GroupUnchanged

\* POST /groups/:groupId/remove-coach
RemoveCoach(u, g) ==
  CASE g \notin DOMAIN groups -> Answer(Failure("removeCoach", 404))
    [] groups[g].creator # u -> Answer(Failure("removeCoach", 403))
    [] OTHER ->
         /\ groups' = [groups EXCEPT ![g].coach = NoUser]
         /\ Reply(GroupResponse("removeCoach", 200, u, g))
         /\ UNCHANGED nextId
         /\ GroupUnchanged

\* DELETE /groups/:groupId
DeleteGroup(u, g) ==
  CASE g \notin DOMAIN groups -> Answer(Failure("deleteGroup", 404))
    [] groups[g].creator # u -> Answer(Failure("deleteGroup", 403))
    [] OTHER ->
         /\ groups' = Remove(groups, {g})
         /\ Reply(GroupResponse("deleteGroup", 200, u, g))
         /\ UNCHANGED nextId
         /\ GroupUnchanged

\* a join test that looks at the member list only
ListedAsMember(g, u) == Includes(groups[g].members, u)

\* members.includes(user) || coach === user || creator === user
AlreadyInGroup(g, u) ==
  \/ Includes(groups[g].members, u)
  \/ groups[g].coach = u
  \/ groups[g].creator = u

\* POST /groups/:groupId/join
Join(u, g) ==
  CASE g \notin DOMAIN groups -> Answer(Failure("join", 404))
    [] AlreadyInGroup(g, u) -> Answer(Failure("join", 400))
    [] OTHER ->
         /\ Len(groups[g].members) < MaxMembers
         /\ groups' = [groups EXCEPT ![g].members = Append(@, u)]
         /\ Reply(GroupResponse("join", 200, u, g))
         /\ UNCHANGED nextId
         /\ GroupUnchanged

GroupNames == {"g"}

Founders == {"u1"}

StatusInputs == {"accepted", "declined", "maybe"}

Invitees == {"u2", "u3"}

NextGroup ==
  \/ \E u \in Founders, name \in GroupNames : CreateGroup(u, name)
  \/ \E u \in UserIds, g \in GroupIds, userId \in Invitees : Invite(u, g, userId)
  \/ \E u \in UserIds, g \in GroupIds, status \in StatusInputs : Respond(u, g, status)
  \/ \E u \in UserIds, g \in GroupIds, coachId \in UserIds : AssignCoach(u, g, coachId)
  \/ \E u \in UserIds, g \in GroupIds, memberId \in UserIds : RemoveMember(u, g, memberId)
  \/ \E u \in UserIds, g \in GroupIds : Leave(u, g)
  \/ \E u \in UserIds, g \in GroupIds : RemoveCoach(u, g)
  \/ \E u \in UserIds, g \in GroupIds : DeleteGroup(u, g)
  \/ \E u \in UserIds, g \in GroupIds : Join(u, g)

SpecGroup == Init /\ [][NextGroup]_vars

----------------------------------------------------------------------------
(* The schema methods evaluated on their own *)

\* a progress document holding the given counts
DocOfCounts(completed, total) ==
  [NewProgress EXCEPT !.completedTasksCount = completed, !.totalTasks = total]

\* a progress document whose entries hold the given ratings, NoRating if unrated
DocOfRatings(ratings) ==
  [NewProgress EXCEPT !.taskProgress =
     [i \in 1..Len(ratings) |-> [NewTaskProgress(i) EXCEPT !.coachRating = ratings[i]]]]

RECURSIVE SeqsUpTo(_, _)
SeqsUpTo(S, n) ==
  IF n = 0 THEN {<<>>}
  ELSE LET shorter == SeqsUpTo(S, n - 1)
       IN  shorter \cup {Append(q, x) : q \in shorter, x \in S}

InitCalc(c) ==
  /\ users = RegisteredUsers
  /\ students = RegisteredStudents
  /\ badges = SeededBadges
  /\ courses = <<>>
  /\ skills = <<>>
  /\ tasks = <<>>
  /\ progress = <<>>
  /\ groups = <<>>
  /\ nextId = [course |-> 1, skill |-> 1, task |-> 1, group |-> 1]
  /\ resp = NoResponse
  /\ calc = c
  /\ inflight = NoRequests

InitPercentage ==
  \E completed \in 0..MaxCount, total \in 0..MaxCount :
    InitCalc([NoCalc EXCEPT !.fn = "getCompletionPercentage",
                            !.completed = completed, !.total = total])

EvalPercentage ==
  /\ calc.fn = "getCompletionPercentage"
  /\ calc.out = -1
  /\ calc' = [calc EXCEPT
       !.out = getCompletionPercentage(DocOfCounts(calc.completed, calc.total))]
  /\ UNCHANGED <<users, students, badges, courses, skills, tasks, progress,
                 groups, nextId, resp, inflight>>

SpecPercentage == InitPercentage /\ [][EvalPercentage]_vars

InitRating ==
  \E ratings \in SeqsUpTo({NoRating} \cup (MinRating..MaxRating), MaxEntries) :
    InitCalc([NoCalc EXCEPT !.fn = "getAverageRating", !.ratings = ratings])

EvalRating ==
  /\ calc.fn = "getAverageRating"
  /\ calc.out = -1
  /\ calc' = [calc EXCEPT !.out = getAverageRating(DocOfRatings(calc.ratings))]
  /\ UNCHANGED <<users, students, badges, courses, skills, tasks, progress,
                 groups, nextId, resp, inflight>>

SpecRating == InitRating /\ [][EvalRating]_vars

----------------------------------------------------------------------------
(* Completing tasks against a catalog that is already in place *)

\* u1 has created two courses with a skill each; the first skill holds the tasks
InitBadge ==
  /\ users = RegisteredUsers
  /\ students = RegisteredStudents
  /\ badges \in {SeededBadges, <<>>}
  /\ courses = [c \in 1..2 |-> [coach |-> "u1", students |-> <<>>, skills |-> <<c>>]]
  /\ skills = [s \in 1..2 |->
       [course |-> s,
        tasks |-> IF s = 1 THEN [i \in 1..MaxBadgeTasks |-> i] ELSE <<>>]]
  /\ tasks = [t \in 1..MaxBadgeTasks |-> [skill |-> 1]]
  /\ progress = <<>>
  /\ groups = <<>>
  /\ nextId = [course |-> 3, skill |-> 3, task |-> MaxBadgeTasks + 1, group |-> 1]
  /\ resp = NoResponse
  /\ calc = NoCalc
  /\ inflight = NoRequests

NextBadge ==
  \E u \in Learners, c \in CourseIds, t \in TaskIds : CompleteTask(u, c, t)

SpecBadge == InitBadge /\ [][NextBadge]_vars

----------------------------------------------------------------------------
(* Submitting and rating the tasks of a course that is already in place *)

\* u1 has created a course with one skill of two tasks and u3 has enrolled
InitReview ==
  /\ users = [RegisteredUsers EXCEPT !["u3"].enrolledCourses = <<1>>]
  /\ students = RegisteredStudents
  /\ badges = SeededBadges
  /\ courses = (1 :> [coach |-> "u1", students |-> <<"u3">>, skills |-> <<1>>])
  /\ skills = (1 :> [course |-> 1, tasks |-> <<1, 2>>])
  /\ tasks = (1 :> [skill |-> 1]) @@ (2 :> [skill |-> 1])
  /\ progress = <<>>
  /\ groups = <<>>
  /\ nextId = [course |-> 2, skill |-> 2, task |-> 3, group |-> 1]
  /\ resp = NoResponse
  /\ calc = NoCalc
  /\ inflight = NoRequests

ReviewRatings == {0, 4, 5, 6}

Feedbacks == {"", "ok"}

NextReview ==
  \/ \E u \in Learners, c \in CourseIds, t \in TaskIds, files \in FileLists :
       SubmitTask(u, c, t, files)
  \/ \E u \in UserIds, c \in CourseIds, student \in Learners, t \in TaskIds,
        rating \in ReviewRatings, feedback \in Feedbacks :
       RateTask(u, c, student, t, rating, feedback)
  \/ \E u \in Learners, c \in CourseIds : MarkSeen(u, c)
  \/ \E u \in Learners, c \in CourseIds, t \in TaskIds : CompleteTask(u, c, t)
  \/ \E u \in Learners, c \in CourseIds : GetProgress(u, c)

SpecReview == InitReview /\ [][NextReview]_vars

\* a record of u3 with an entry for each task, reviewed or not: the schema
\* holds the flag, the route that sets it is not among the routes above
InitSeen ==
  \E flags \in [1..2 -> BOOLEAN] :
    /\ users = [RegisteredUsers EXCEPT !["u3"].enrolledCourses = <<1>>]
    /\ students = RegisteredStudents
    /\ badges = SeededBadges
    /\ courses = (1 :> [coach |-> "u1", students |-> <<"u3">>, skills |-> <<1>>])
    /\ skills = (1 :> [course |-> 1, tasks |-> <<1, 2>>])
    /\ tasks = (1 :> [skill |-> 1]) @@ (2 :> [skill |-> 1])
    /\ progress = (<<"u3", 1>> :>
         [NewProgress EXCEPT
            !.totalTasks = 2,
            !.taskProgress =
              [t \in 1..2 |-> [NewTaskProgress(t) EXCEPT !.reviewed = flags[t]]]])
    /\ groups = <<>>
    /\ nextId = [course |-> 2, skill |-> 2, task |-> 3, group |-> 1]
    /\ resp = NoResponse
    /\ calc = NoCalc
    /\ inflight = NoRequests
  /\ inflight = NoRequests

SpecSeen == InitSeen /\ [][NextReview]_vars

----------------------------------------------------------------------------
(* Two complete-task requests in flight for a course that is already in place *)

\* u3 has enrolled in a course of three tasks and has no record yet, or a
\* record with task 1 completed or not, and submitted once or not
InitRace ==
  \E done \in {<<>>, <<1>>}, entries \in {<<>>, <<NewTaskProgress(1)>>},
     exists \in BOOLEAN :
    /\ users = [RegisteredUsers EXCEPT !["u3"].enrolledCourses = <<1>>]
    /\ students = RegisteredStudents
    /\ badges = SeededBadges
    /\ courses = (1 :> [coach |-> "u1", students |-> <<"u3">>, skills |-> <<1>>])
    /\ skills = (1 :> [course |-> 1, tasks |-> <<1, 2, 3>>])
    /\ tasks = [t \in 1..3 |-> [skill |-> 1]]
    /\ progress = IF exists
                  THEN (<<"u3", 1>> :>
                         [NewProgress EXCEPT !.completedTasks = done,
                                             !.completedTasksCount = Len(done),
                                             !.taskProgress = entries,
                                             !.totalTasks = 3])
                  ELSE <<>>
    /\ groups = <<>>
    /\ nextId = [course |-> 2, skill |-> 2, task |-> 4, group |-> 1]
    /\ resp = NoResponse
    /\ calc = NoCalc
    /\ inflight = NoRequests

NextRace ==
  \/ \E r \in Requests, u \in Learners, c \in CourseIds, t \in TaskIds :
       FindProgress(r, u, c, t)
  \/ \E r \in Requests, u \in Learners, c \in CourseIds, t \in TaskIds,
        files \in FileLists : FindForSubmit(r, u, c, t, files)
  \/ \E r \in Requests, versioned \in BOOLEAN : SaveSubmitted(r, versioned)
  \/ \E r \in Requests : FindSkills(r)
  \/ \E r \in Requests : SaveFound(r)
  \/ \E r \in Requests : FindStudent(r)
  \/ \E r \in Requests : AwardBadge(r)

SpecRace == InitRace /\ [][NextRace]_vars

----------------------------------------------------------------------------
(* Accounts, and handlers that stop at a database call that throws *)

\* the role enum of userSchema
RoleEnum == {"student", "coach"}

\* the _id of the next Student document
FreshStudent ==
  IF DOMAIN students = {} THEN 1
  ELSE 1 + CHOOSE p \in DOMAIN students : \A q \in DOMAIN students : q <= p

\* POST /users/register; the email is the key of the account, role "" is a
\* body without a role
Register(email, name, role) ==
  CASE email \in DOMAIN users -> Answer(Failure("register", 400))
    \* Student.name is required: studentProfile.save() throws
    [] name = "" -> Answer(Failure("register", 500))
    [] OTHER ->
         /\ Cardinality(DOMAIN students) < MaxProfiles
         /\ students' = students @@ (FreshStudent :> [name |-> name, badges |-> <<>>])
         /\ IF role # "" /\ role \notin RoleEnum
            THEN \* User.create throws a validation error: caught, 500
                 /\ Reply(Failure("register", 500))
                 /\ UNCHANGED users
            ELSE /\ users' = users @@
                      (email :> [name |-> name,
                                 role |-> IF role = "" THEN "student" ELSE role,
                                 enrolledCourses |-> <<>>,
                                 studentProfile |-> FreshStudent])
                 /\ Reply(Response("register", 201, email, NoId, NoId))
         /\ UNCHANGED <<badges, courses, skills, tasks, progress, groups,
                        nextId, calc, inflight>>

\* PUT /users/profile with a name in the body
UpdateProfile(u, name) ==
  /\ users' = [users EXCEPT ![u].name = IF name # "" THEN name ELSE @]
  /\ Reply(Response("updateProfile", 200, u, NoId, NoId))
  /\ UNCHANGED <<students, badges, courses, skills, tasks, progress, groups,
                 nextId, calc, inflight>>

\* the database calls of enroll that write
EnrollWrites == {"course.save", "user.save"}

\* POST /courses/:id/enroll when the database call `at` throws: the writes
\* before it stay, the catch answers 500
EnrollFault(u, c, at) ==
  /\ c \in DOMAIN courses
  /\ courses[c].coach # u
  /\ ~Includes(users[u].enrolledCourses, c)
  /\ at = "course.save" => ~Includes(courses[c].students, u)
  /\ courses' = IF at = "user.save" /\ ~Includes(courses[c].students, u)
                THEN [courses EXCEPT ![c].students = Append(@, u)]
                ELSE courses
  /\ Reply(Failure("enroll", 500))
  /\ UNCHANGED <<users, students, badges, skills, tasks, progress, groups,
                 nextId, calc, inflight>>

\* the skills of course c in the order Skill.find returns them
SkillsInOrder(c) ==
  LET found == SkillsOfCourse(c)
      RECURSIVE Sorted(_)
      Sorted(S) == IF S = {} THEN <<>>
                   ELSE LET x == CHOOSE y \in S : \A z \in S : y <= z
                        IN  <<x>> \o Sorted(S \ {x})
  IN  Sorted(found)

\* DELETE /courses/:id when a database call throws after k writes were made:
\* updateMany, a Task.deleteMany for each skill, Skill.deleteMany,
\* Progress.deleteMany, and last findByIdAndDelete
DeleteCourseFault(u, c, k) ==
  LET found == SkillsInOrder(c)
      n == Len(found)
      emptied == {found[i] : i \in 1..(IF k - 1 < n THEN k - 1 ELSE n)}
  IN  /\ IsCoach(u)
      /\ c \in DOMAIN courses
      /\ courses[c].coach = u
      /\ k \in 0..(n + 3)
      /\ users' = IF k >= 1 THEN UsersWithoutCourse(c) ELSE users
      /\ tasks' = IF k >= 2 THEN Remove(tasks, UNION {TasksOfSkill(s) : s \in emptied})
                  ELSE tasks
      /\ skills' = IF k >= n + 2 THEN Remove(skills, SkillsOfCourse(c)) ELSE skills
      /\ progress' = IF k >= n + 3 THEN ProgressWithoutCourse(c) ELSE progress
      /\ Reply(Failure("deleteCourse", 500))
      /\ UNCHANGED <<students, badges, courses, groups, nextId, calc, inflight>>

\* u1 and u3 have registered, u1 has created a course with a skill of one task
InitFault ==
  /\ users = [u \in {"u1", "u3"} |-> RegisteredUsers[u]]
  /\ students = [p \in {1, 3} |-> RegisteredStudents[p]]
  /\ badges = SeededBadges
  /\ courses = (1 :> [coach |-> "u1", students |-> <<>>, skills |-> <<1>>])
  /\ skills = (1 :> [course |-> 1, tasks |-> <<1>>])
  /\ tasks = (1 :> [skill |-> 1])
  /\ progress = <<>>
  /\ groups = <<>>
  /\ nextId = [course |-> 2, skill |-> 2, task |-> 2, group |-> 1]
  /\ resp = NoResponse
  /\ calc = NoCalc
  /\ inflight = NoRequests

Names == {"", "u3"}

RoleInputs == {"", "coach", "admin"}

NextFault ==
  \/ \E email \in UserIds, name \in Names, role \in RoleInputs :
       Register(email, name, role)
  \/ \E u \in DOMAIN users, c \in CourseIds : Enroll(u, c)
  \/ \E u \in DOMAIN users, c \in CourseIds, at \in EnrollWrites :
       EnrollFault(u, c, at)
  \/ \E u \in DOMAIN users, c \in CourseIds : Unenroll(u, c)
  \/ \E u \in DOMAIN users, c \in CourseIds : DeleteCourse(u, c)
  \/ \E u \in DOMAIN users, c \in CourseIds, k \in 0..(MaxCatalog + 3) :
       DeleteCourseFault(u, c, k)
  \/ \E u \in Learners, c \in CourseIds, t \in TaskIds : CompleteTask(u, c, t)

SpecFault == InitFault /\ [][NextFault]_vars

----------------------------------------------------------------------------
(* Names and student profiles *)

\* u1 and u3 have registered; u1 has created two courses, u3 has completed
\* the three tasks of the first and one of them against the second
InitProfile ==
  /\ users = [u \in {"u1", "u3"} |-> RegisteredUsers[u]]
  /\ students = [p \in {1, 3} |-> RegisteredStudents[p]]
  /\ badges = SeededBadges
  /\ courses = [c \in 1..2 |-> [coach |-> "u1", students |-> <<>>, skills |-> <<c>>]]
  /\ skills = [s \in 1..2 |->
       [course |-> s, tasks |-> IF s = 1 THEN <<1, 2, 3>> ELSE <<>>]]
  /\ tasks = [t \in 1..3 |-> [skill |-> 1]]
  /\ progress = (<<"u3", 1>> :>
                   [NewProgress EXCEPT !.completedTasks = <<1, 2, 3>>,
                                       !.completedTasksCount = 3,
                                       !.totalTasks = 3])
                @@ (<<"u3", 2>> :>
                   [NewProgress EXCEPT !.completedTasks = <<1>>,
                                       !.completedTasksCount = 1])
  /\ groups = <<>>
  /\ nextId = [course |-> 3, skill |-> 3, task |-> 4, group |-> 1]
  /\ resp = NoResponse
  /\ calc = NoCalc
  /\ inflight = NoRequests

ProfileNames == {"u1", "zed"}

NextProfile ==
  \/ \E email \in UserIds, name \in ProfileNames, role \in RoleInputs :
       Register(email, name, role)
  \/ \E u \in DOMAIN users, name \in ProfileNames : UpdateProfile(u, name)
  \/ \E u \in Learners, c \in CourseIds, t \in TaskIds : CompleteTask(u, c, t)

SpecProfile == InitProfile /\ [][NextProfile]_vars

----------------------------------------------------------------------------
(* Enrollment in two courses that are already in place *)

\* u1 and u2 have created a course each
InitEnroll ==
  /\ users = RegisteredUsers
  /\ students = RegisteredStudents
  /\ badges = SeededBadges
  /\ courses = (1 :> [coach |-> "u1", students |-> <<>>, skills |-> <<>>])
               @@ (2 :> [coach |-> "u2", students |-> <<>>, skills |-> <<>>])
  /\ skills = <<>>
  /\ tasks = <<>>
  /\ progress = <<>>
  /\ groups = <<>>
  /\ nextId = [course |-> 3, skill |-> 1, task |-> 1, group |-> 1]
  /\ resp = NoResponse
  /\ calc = NoCalc
  /\ inflight = NoRequests

NextEnroll ==
  \/ \E u \in UserIds, c \in CourseIds : Enroll(u, c)
  \/ \E u \in UserIds, c \in CourseIds : Unenroll(u, c)
  \/ \E u \in UserIds, c \in CourseIds : DeleteCourse(u, c)

SpecEnroll == InitEnroll /\ [][NextEnroll]_vars

----------------------------------------------------------------------------
(* Completions, submissions and runs of the reconciliation script *)

NextSync ==
  \/ \E u \in Learners, c \in CourseIds, t \in TaskIds, files \in FileLists :
       SubmitTask(u, c, t, files)
  \/ \E u \in Learners, c \in CourseIds, t \in TaskIds : CompleteTask(u, c, t)
  \/ SyncCompletedTasksToTaskProgress

SpecSync == InitReview /\ [][NextSync]_vars

----------------------------------------------------------------------------
(* Properties *)

\* the progress record the last response is about
RespondedDoc == progress[<<resp.caller, resp.course>>]

CompleteTaskSucceeded == resp.op = "completeTask" /\ resp.status = 201

\* C1: after a successful completeTask, whatever submitTask, rateTask, markSeen
\* and catalog calls came before it, the saved Progress record of that
\* (user, course) has completedTasksCount equal to the length of completedTasks.
CountMatchesCompletedTasks ==
  CompleteTaskSucceeded =>
    RespondedDoc.completedTasksCount = Len(RespondedDoc.completedTasks)

\* a completeTask repeated on a record that already holds a submission
CountMatchesCompletedTasksReached ==
  /\ CompleteTaskSucceeded
  /\ RespondedDoc.completedTasksCount = 1
  /\ RespondedDoc.completedTasks = <<resp.task>>
  /\ RespondedDoc.taskProgress # <<>>

CatalogMutations == {"addTask", "deleteTask", "addSkill", "deleteSkill"}

\* C2: after a task or a skill is added or deleted, every Progress record of
\* the affected course has totalTasks equal to the number of tasks the course's
\* skills list now.
TotalTasksFollowsCatalog ==
  (resp.op \in CatalogMutations /\ resp.status \in {200, 201} /\ resp.course # NoId) =>
    \A k \in DOMAIN progress :
      k[2] = resp.course => progress[k].totalTasks = AllTasksCount(resp.course)

\* C3: after a successful delete-task of task T, no Progress record holds T in
\* completedTasks or in a taskProgress entry.
DeletedTaskLeavesProgress ==
  (resp.op = "deleteTask" /\ resp.status = 200) =>
    \A k \in DOMAIN progress :
      /\ ~Includes(progress[k].completedTasks, resp.task)
      /\ \A i \in DOMAIN progress[k].taskProgress :
           progress[k].taskProgress[i].task # resp.task

\* C4: in every state every stored reference resolves: Skill.tasks to tasks,
\* Course.skills to skills, enrolledCourses to courses, and each Progress record
\* to an existing course and to existing tasks.
AllReferencesResolve ==
  /\ \A s \in DOMAIN skills : Range(skills[s].tasks) \subseteq DOMAIN tasks
  /\ \A c \in DOMAIN courses : Range(courses[c].skills) \subseteq DOMAIN skills
  /\ \A u \in DOMAIN users : Range(users[u].enrolledCourses) \subseteq DOMAIN courses
  /\ \A k \in DOMAIN progress :
       /\ k[2] \in DOMAIN courses
       /\ Range(progress[k].completedTasks) \subseteq DOMAIN tasks
       /\ \A i \in DOMAIN progress[k].taskProgress :
            progress[k].taskProgress[i].task \in DOMAIN tasks

\* what a successful delete-course of course c leaves behind
CourseGone(c) ==
  /\ c \notin DOMAIN courses'
  /\ \A s \in DOMAIN skills' : skills'[s].course # c
  /\ \A s \in SkillsOfCourse(c) \cup Range(courses[c].skills) :
       /\ s \notin DOMAIN skills'
       /\ \A t \in DOMAIN tasks' : tasks'[t].skill # s
       /\ s \in DOMAIN skills =>
            \A t \in Range(skills[s].tasks) : t \notin DOMAIN tasks'
  /\ \A x \in DOMAIN users' : ~Includes(users'[x].enrolledCourses, c)
  /\ \A k \in DOMAIN progress' : k[2] # c

\* C5: a delete-course succeeds only for the owning coach and then leaves no
\* skill of the course, no task of those skills, no enrollment in the course and
\* no Progress record for it; a delete-course by any other caller fails and
\* changes nothing.
DeleteCourseCascades ==
  [][resp'.op = "deleteCourse" =>
       \A u \in UserIds, c \in CourseIds :
         DeleteCourse(u, c) =>
           IF c \in DOMAIN courses /\ courses[c].coach = u
           THEN resp'.status = 200 /\ CourseGone(c)
           ELSE resp'.status >= 400 /\ UNCHANGED store]_vars

\* a course with a skill, a task, an enrolled learner and a progress record
\* has been deleted
DeleteCourseCascadesReached ==
  /\ resp.op = "deleteCourse" /\ resp.status = 200
  /\ nextId.skill > 1 /\ nextId.task > 1
  /\ courses = <<>> /\ skills = <<>> /\ tasks = <<>> /\ progress = <<>>

\* C6: completeTask is idempotent: repeating the call that has just succeeded,
\* with the catalog as it is, saves the same completedTasks, completedTasksCount
\* and totalTasks, and the task is in completedTasks exactly once.
CompleteTaskIdempotent ==
  CompleteTaskSucceeded =>
    LET again == CompletedDoc(resp.caller, resp.course, resp.task)
    IN  /\ again.completedTasks = RespondedDoc.completedTasks
        /\ again.completedTasksCount = RespondedDoc.completedTasksCount
        /\ again.totalTasks = RespondedDoc.totalTasks
        /\ Occurrences(RespondedDoc.completedTasks, resp.task) = 1

\* completeTask has answered for a task of the course, counted in totalTasks
CompleteTaskIdempotentReached ==
  /\ CompleteTaskSucceeded
  /\ RespondedDoc.completedTasks = <<resp.task>>
  /\ RespondedDoc.totalTasks = 1
  /\ resp.task \in DOMAIN tasks

\* C7: getCompletionPercentage is 0 when totalTasks is 0, and otherwise the
\* integer nearest to 100 * completedTasksCount / totalTasks; 1 of 4 gives 25.
PercentageIsRounded ==
  (calc.fn = "getCompletionPercentage" /\ calc.out # -1) =>
    /\ calc.total = 0 => calc.out = 0
    /\ calc.total > 0 =>
         2 * Abs(100 * calc.completed - calc.out * calc.total) <= calc.total
    /\ (calc.completed = 1 /\ calc.total = 4) => calc.out = 25

\* 2 of 3: the quotient 66.66.. is rounded up
PercentageIsRoundedReached ==
  calc.fn = "getCompletionPercentage" /\ calc.completed = 2 /\ calc.total = 3
    /\ calc.out = 67

\* the ratings of the rated entries of calc.ratings
GivenRatings == SelectSeq(calc.ratings, LAMBDA r : r \in MinRating..MaxRating)

RECURSIVE Sum(_)
Sum(ratings) == IF ratings = <<>> THEN 0 ELSE Head(ratings) + Sum(Tail(ratings))

\* C8: getAverageRating is 0 when no entry is rated, and otherwise the mean of
\* the ratings of exactly the rated entries to one decimal place (in tenths:
\* 4 and 5 give 45); unrated entries do not enter the mean.
AverageIsMeanOfRated ==
  (calc.fn = "getAverageRating" /\ calc.out # -1) =>
    LET n == Len(GivenRatings)
    IN  /\ n = 0 => calc.out = 0
        /\ n > 0 => 2 * Abs(10 * Sum(GivenRatings) - calc.out * n) <= n
        /\ GivenRatings = <<4, 5>> => calc.out = 45

\* 4 and 5 with an unrated entry between them
AverageIsMeanOfRatedReached ==
  calc.fn = "getAverageRating" /\ calc.ratings = <<4, NoRating, 5>>
    /\ calc.out = 45

\* the student profile of user u holds badge b
HoldsBadge(u, b) ==
  /\ FindStudentByName(users[u].name) # NoId
  /\ Includes(students[FindStudentByName(users[u].name)].badges, b)

\* C9: badge granting is idempotent: after any completeTask calls every badge
\* is at most once in each student profile, and a completeTask made while the
\* badge is held reports no newly granted badge.
BadgeGrantedOnce ==
  [][/\ \A p \in DOMAIN students' : \A b \in DOMAIN badges :
          Occurrences(students'[p].badges, b) <= 1
     /\ \A u \in Learners, b \in DOMAIN badges :
          HoldsBadge(u, b) =>
            \A c \in CourseIds, t \in TaskIds :
              CompleteTask(u, c, t) => resp'.newBadges = <<>>]_vars

\* a sixth task completed after the badge was granted at the fifth
BadgeGrantedOnceReached ==
  /\ CompleteTaskSucceeded
  /\ resp.newBadges = <<>>
  /\ TotalCompleted(progress, resp.caller) > BadgeThreshold
  /\ \E b \in DOMAIN badges : HoldsBadge(resp.caller, b)

\* C10: in every state of an existing group the creator is among the members.
CreatorIsMember ==
  \A g \in DOMAIN groups : Includes(groups[g].members, groups[g].creator)

\* group g as it is after the step, but with the members it had before
WithOldMembers(g) == [groups'[g] EXCEPT !.members = groups[g].members]

\* the step changes at most the member list of group g
OnlyMembersChange(g) ==
  /\ DOMAIN groups' = DOMAIN groups
  /\ \A h \in DOMAIN groups : h # g => groups'[h] = groups[h]
  /\ WithOldMembers(g) = groups[g]

JoinAddsOnce ==
  [][resp'.op = "join" =>
       \A u \in UserIds, g \in DOMAIN groups :
         Join(u, g) =>
           IF \/ u \in Range(groups[g].members)
              \/ u = groups[g].coach
              \/ u = groups[g].creator
           THEN resp'.status = 400 /\ groups' = groups
           ELSE /\ resp'.status = 200
                /\ groups'[g].members = Append(groups[g].members, u)
                /\ Occurrences(groups'[g].members, u) = 1
                /\ OnlyMembersChange(g)]_vars

\* a user has joined a group whose creator had been removed from members
JoinAddsOnceReached ==
  /\ resp.op = "join" /\ resp.status = 200
  /\ resp.group \in DOMAIN groups
  /\ groups[resp.group].members = <<resp.caller>>
  /\ groups[resp.group].creator # resp.caller

\* the inputs of a rate-task request
RateInputs ==
  UserIds \X CourseIds \X Learners \X TaskIds \X ReviewRatings \X Feedbacks

RateTaskOf(in) == RateTask(in[1], in[2], in[3], in[4], in[5], in[6])

\* the record of (student, c) has an entry for task t
HasEntry(student, c, t) ==
  /\ <<student, c>> \in DOMAIN progress
  /\ \E i \in DOMAIN progress[<<student, c>>].taskProgress :
       progress[<<student, c>>].taskProgress[i].task = t

\* the status of a rate-task request in the current state
StatusOf(in) == RateTaskStatus(in[1], in[2], in[3], in[4], in[5])

\* C13: rateTask fails and leaves every Progress record as it is when the
\* caller is not the coach of the course (401), when the rating is missing or
\* outside 1..5 (400, for a caller with the coach role), or when the student
\* has no record for the course or no entry for the task (404).
RateTaskRejects ==
  /\ [](\A in \in RateInputs :
          LET notOwner == in[2] \in DOMAIN courses /\ courses[in[2]].coach # in[1]
              bad == in[5] \notin MinRating..MaxRating
              missing == ~HasEntry(in[3], in[2], in[4])
          IN  /\ (notOwner \/ bad \/ missing) => StatusOf(in) >= 400
              /\ (notOwner /\ ~bad) => StatusOf(in) = 401
              /\ (bad /\ users[in[1]].role = "coach") => StatusOf(in) = 400
              /\ (~notOwner /\ ~bad /\ missing) => StatusOf(in) = 404)
  /\ [][(resp'.op = "rateTask" /\ resp'.status >= 400) => UNCHANGED store]_vars

\* a rating was refused for want of authorization although the entry is there
RateTaskRejectsReached ==
  /\ resp.op = "rateTask" /\ resp.status = 401
  /\ HasEntry("u3", 1, 1)

\* the ratings of the rated entries of a record
RatingsOf(doc) ==
  LET rated == SelectSeq(doc.taskProgress, LAMBDA tp : tp.coachRating # NoRating)
  IN  [i \in 1..Len(rated) |-> rated[i].coachRating]

\* C14: after a successful rateTask the entry of the task holds the rating, the
\* feedback and a rating date and is no longer submitted for review, the stored
\* averageRating is the mean of the rated entries to one decimal place (in
\* tenths), and no other entry and no other field of the record has changed.
RateTaskRecords ==
  [][(resp'.op = "rateTask" /\ resp'.status = 200) =>
       \A in \in RateInputs :
         (in[1] = resp'.caller /\ in[4] = resp'.task /\ RateTaskOf(in)) =>
           LET old == progress[<<in[3], in[2]>>]
               new == progress'[<<in[3], in[2]>>]
               n == Len(RatingsOf(new))
           IN  /\ DOMAIN new.taskProgress = DOMAIN old.taskProgress
               /\ \E i \in DOMAIN old.taskProgress :
                    /\ old.taskProgress[i].task = in[4]
                    /\ new.taskProgress[i] =
                         [old.taskProgress[i] EXCEPT
                            !.coachRating = in[5], !.coachFeedback = in[6],
                            !.coachRatedAt = TRUE, !.submittedForReview = FALSE]
                    /\ \A j \in DOMAIN old.taskProgress :
                         j # i => new.taskProgress[j] = old.taskProgress[j]
               /\ n > 0
               /\ 2 * Abs(10 * Sum(RatingsOf(new)) - new.averageRating * n) <= n
               /\ [new EXCEPT !.taskProgress = old.taskProgress,
                              !.averageRating = old.averageRating] = old
               /\ \A k \in DOMAIN progress' :
                    k # <<in[3], in[2]>> => k \in DOMAIN progress
                                            /\ progress'[k] = progress[k]]_vars

\* two entries rated 4 and 5: the stored average is 4.5
RateTaskRecordsReached ==
  /\ resp.op = "rateTask" /\ resp.status = 200
  /\ <<"u3", 1>> \in DOMAIN progress
  /\ Len(RatingsOf(progress[<<"u3", 1>>])) = 2
  /\ progress[<<"u3", 1>>].averageRating = 45

\* the entry of task t in a document, a fresh one if the document has none
EntryOf(doc, t) ==
  IF \E i \in DOMAIN doc.taskProgress : doc.taskProgress[i].task = t
  THEN doc.taskProgress[CHOOSE i \in DOMAIN doc.taskProgress :
                          doc.taskProgress[i].task = t]
  ELSE NewTaskProgress(t)

\* C15: after a successful submitTask with n >= 1 files the stored entry of the
\* task, whether it was there before or is made by this call, is submitted for
\* review, has a submission date and has the n files after the uploads it had;
\* its completed flag and the record's completedTasks and completedTasksCount
\* are as before.
SubmitTaskStoresUploads ==
  [][(resp'.op = "submitTask" /\ resp'.status = 201) =>
       \A u \in Learners, c \in CourseIds, t \in TaskIds, files \in FileLists :
         SubmitTask(u, c, t, files) =>
           LET old == FindOrNewProgress(u, c)
               new == progress'[<<u, c>>]
           IN  /\ EntryOf(new, t).submittedForReview
               /\ EntryOf(new, t).submittedAt
               /\ EntryOf(new, t).studentUploads =
                    EntryOf(old, t).studentUploads \o files
               /\ EntryOf(new, t).completed = EntryOf(old, t).completed
               /\ new.completedTasks = old.completedTasks
               /\ new.completedTasksCount = old.completedTasksCount]_vars

\* C16: a submitTask without a file fails with 400 and touches no collection:
\* no Progress record is made and none is changed.
EmptySubmitRejected ==
  [][resp'.op = "submitTask" =>
       \A u \in Learners, c \in CourseIds, t \in TaskIds :
         SubmitTask(u, c, t, <<>>) =>
           resp'.status = 400 /\ UNCHANGED store]_vars

\* an empty submission was refused while the student has no record yet
EmptySubmitRejectedReached ==
  /\ resp.op = "submitTask" /\ resp.status = 400
  /\ progress = <<>>

AllowedOrRefused(allowed) ==
  IF allowed THEN resp'.status = 200
  ELSE resp'.status = 403 /\ groups' = groups

\* C18: assign-coach, remove-coach and delete-group change a group only for
\* its creator, remove-member only for its creator or its current coach; the
\* same call by anyone else fails with 403 and leaves the groups as they are.
GroupAdministrationByRole ==
  [][/\ resp'.op = "assignCoach" =>
          \A u \in UserIds, g \in DOMAIN groups, coachId \in UserIds :
            AssignCoach(u, g, coachId) => AllowedOrRefused(groups[g].creator = u)
     /\ resp'.op = "removeCoach" =>
          \A u \in UserIds, g \in DOMAIN groups :
            RemoveCoach(u, g) => AllowedOrRefused(groups[g].creator = u)
     /\ resp'.op = "deleteGroup" =>
          \A u \in UserIds, g \in DOMAIN groups :
            DeleteGroup(u, g) => AllowedOrRefused(groups[g].creator = u)
     /\ resp'.op = "removeMember" =>
          \A u \in UserIds, g \in DOMAIN groups, memberId \in UserIds :
            RemoveMember(u, g, memberId) =>
              AllowedOrRefused(groups[g].creator = u \/ groups[g].coach = u)]_vars

\* the coach, who is not the creator, has removed a member
GroupAdministrationByRoleReached ==
  /\ resp.op = "removeMember" /\ resp.status = 200
  /\ resp.group \in DOMAIN groups
  /\ resp.caller = groups[resp.group].coach
  /\ resp.caller # groups[resp.group].creator

\* user u has an invitation in group g
Invited(g, u) ==
  \E i \in DOMAIN groups[g].invitations : groups[g].invitations[i].user = u

\* C19: invite succeeds only for a current member and then adds a pending
\* invitation and leaves members alone; respond succeeds only for a caller
\* with an invitation in the group; respond makes the caller a member only on
\* the answer 'accepted' to the caller's own invitation, and 'declined' leaves
\* members as they are.
InvitationsGateMembership ==
  [][/\ resp'.op = "invite" =>
          \A u \in UserIds, g \in DOMAIN groups, userId \in Invitees :
            Invite(u, g, userId) =>
              IF u \in Range(groups[g].members)
              THEN /\ resp'.status = 200
                   /\ groups'[g].invitations =
                        Append(groups[g].invitations,
                               [user |-> userId, status |-> "pending"])
                   /\ groups'[g].members = groups[g].members
              ELSE resp'.status = 403 /\ groups' = groups
     /\ resp'.op = "respond" =>
          \A u \in UserIds, g \in DOMAIN groups, status \in StatusInputs :
            Respond(u, g, status) =>
              /\ resp'.status = 200 => Invited(g, u)
              /\ ~Invited(g, u) => groups' = groups
              /\ groups'[g].members # groups[g].members =>
                   /\ status = "accepted" /\ Invited(g, u)
                   /\ groups'[g].members = Append(groups[g].members, u)
              /\ status = "declined" =>
                   groups'[g].members = groups[g].members]_vars

\* an invited user has accepted and is a member
InvitationsGateMembershipReached ==
  /\ resp.op = "respond" /\ resp.status = 200
  /\ resp.group \in DOMAIN groups
  /\ Includes(groups[resp.group].members, resp.caller)
  /\ resp.caller # groups[resp.group].creator
  /\ \E i \in DOMAIN groups[resp.group].invitations :
       groups[resp.group].invitations[i] =
         [user |-> resp.caller, status |-> "accepted"]

\* the requests that were answered 201
Succeeded == {r \in Requests : inflight[r].status = 201}

\* the stored record a request works on
StoredFor(r) == progress[<<inflight[r].user, inflight[r].course>>]

\* the task of the request is in the stored record
Holds(r) == Includes(StoredFor(r).completedTasks, inflight[r].task)

\* two complete-task calls r and s have been answered; they were for the same
\* (user, course) and for
\* two different tasks that the record they loaded did not hold, and each
\* loaded its record before the other saved
Raced(r, s) ==
  /\ r # s
  /\ inflight[r].op = "completeTask" /\ inflight[s].op = "completeTask"
  /\ inflight[r].pc = "done" /\ inflight[s].pc = "done"
  /\ inflight[r].user = inflight[s].user
  /\ inflight[r].course = inflight[s].course
  /\ inflight[r].task # inflight[s].task
  /\ ~Includes(inflight[r].loaded.completedTasks, inflight[r].task)
  /\ ~Includes(inflight[s].loaded.completedTasks, inflight[s].task)
  /\ inflight[r].early /\ inflight[s].early

\* C20 as stated: when two complete-task calls for the same (user, course) and
\* different tasks both read the record before either writes, the persisted
\* record ends up holding only one of the two tasks and completedTasksCount is
\* below the number of completions that returned success.
RaceLosesTask ==
  \A r, s \in Requests :
    Raced(r, s) =>
      /\ Holds(r) # Holds(s)
      /\ StoredFor(r).completedTasksCount <
           Len(inflight[r].loaded.completedTasks) + Cardinality(Succeeded)

\* C20 amended: after such a race the record holds the task of every call that
\* returned success. If both returned success the record holds both tasks and
\* completedTasksCount, written last, is one more than the count both calls
\* read: one less than the completions that returned success. Otherwise both
\* calls found no record, the second insert was refused with 500, and the
\* record holds the one task that succeeded with a count of 1.
RaceKeepsTasks ==
  \A r, s \in Requests :
    Raced(r, s) =>
      LET stored == StoredFor(r)
          read == Len(inflight[r].loaded.completedTasks)
      IN  /\ \A q \in {r, s} : q \in Succeeded => Holds(q)
          /\ {r, s} \subseteq Succeeded =>
               /\ Len(stored.completedTasks) = read + 2
               /\ stored.completedTasksCount = read + 1
          /\ ~({r, s} \subseteq Succeeded) =>
               /\ inflight[r].isNew /\ inflight[s].isNew
               /\ Cardinality({r, s} \cap Succeeded) = 1
               /\ {inflight[q].status : q \in {r, s}} = {201, 500}
               /\ Len(stored.completedTasks) = 1
               /\ stored.completedTasksCount = 1

\* both calls returned 201 after reading a record that held task 1: the record
\* holds three tasks and a count of 2
RaceKeepsTasksReached ==
  /\ Raced("a", "b")
  /\ Succeeded = Requests
  /\ Holds("a") /\ Holds("b")
  /\ Len(StoredFor("a").completedTasks) = 3
  /\ StoredFor("a").completedTasksCount = 2

\* C21: no operation partially commits on failure: whenever an operation is
\* answered with a failure, also after a database call of it has thrown, the
\* store is as it was before the operation.
FailureLeavesStore ==
  [][resp'.status >= 400 => UNCHANGED store]_vars

\* the request has inserted the document it built for want of a record
Inserted(r) ==
  /\ inflight[r].isNew
  /\ \/ inflight[r].pc \in {"saved", "student"}
     \/ inflight[r].pc = "done" /\ inflight[r].status = 201

\* the request takes the step that saves its document
Saves(r) ==
  /\ inflight[r].pc \in {"counted", "submitting"}
  /\ inflight'[r].pc # inflight[r].pc

\* C22: there is at most one Progress record per (user, course): of the
\* first-interaction calls (complete-task or submit-task) that found no record
\* for a pair, at most one has inserted its document, also when they
\* interleave; the insert of a call that found no record while a record now
\* exists is answered 500 and stores nothing.
OneRecordPerPair ==
  /\ [](\A u \in UserIds, c \in CourseIds :
          /\ Cardinality({r \in Requests :
                            /\ inflight[r].user = u /\ inflight[r].course = c
                            /\ Inserted(r)}) <= 1
          /\ (\E r \in Requests :
                inflight[r].user = u /\ inflight[r].course = c /\ Inserted(r))
               => <<u, c>> \in DOMAIN progress)
  /\ [][\A r \in Requests :
          (Saves(r) /\ inflight[r].isNew
             /\ <<inflight[r].user, inflight[r].course>> \in DOMAIN progress)
            => /\ inflight'[r].status = 500
               /\ resp'.status = 500
               /\ UNCHANGED store]_vars

\* a complete-task and a submit-task both found no record: one was inserted,
\* the other refused
OneRecordPerPairReached ==
  /\ inflight["a"].isNew /\ inflight["b"].isNew
  /\ inflight["a"].op = "completeTask" /\ inflight["b"].op = "submitTask"
  /\ inflight["a"].user = inflight["b"].user
  /\ inflight["a"].course = inflight["b"].course
  /\ inflight["a"].pc = "done" /\ inflight["b"].pc = "done"
  /\ {inflight["a"].status, inflight["b"].status} = {201, 500}

\* the operations on a Progress record that C23 names
ProgressMutations == {"completeTask", "submitTask", "rateTask", "markSeen"}

\* C23: every operation that mutates a Progress record recomputes the counts
\* before it saves: directly after a successful completeTask, submitTask,
\* rateTask or markSeen the record it has created or changed has
\* completedTasksCount = |completedTasks| and totalTasks = the number of tasks
\* of the skills of the course.
MutationsRecompute ==
  [][(resp'.op \in ProgressMutations /\ resp'.status < 400) =>
       \A k \in DOMAIN progress' :
         (k \notin DOMAIN progress \/ progress'[k] # progress[k]) =>
           /\ progress'[k].completedTasksCount = Len(progress'[k].completedTasks)
           /\ progress'[k].totalTasks = AllTasksCount(k[2])']_vars

\* the completions of user u over all courses: the positions of the
\* completedTasks arrays of the records of u
CompletionsOf(coll, u) ==
  {ci \in CourseIds \X (1..MaxCount) :
     /\ <<u, ci[1]>> \in DOMAIN coll
     /\ ci[2] <= Len(coll[<<u, ci[1]>>].completedTasks)}

\* C24: after each completeTask the badge evaluator takes the caller's
\* completed tasks over all of the caller's courses: when they are at least 5,
\* the badge exists and the caller does not hold it, the badge is added to
\* the caller's badges and reported in newBadges; otherwise no badge is added
\* and newBadges is empty.
BadgeAtThreshold ==
  [][resp'.op = "completeTask" =>
       \A u \in Learners, c \in CourseIds, t \in TaskIds :
         (u = resp'.caller /\ c = resp'.course /\ t = resp'.task
            /\ CompleteTask(u, c, t)) =>
           LET p == users[u].studentProfile
               total == Cardinality(CompletionsOf(progress', u))
               due == {b \in DOMAIN badges :
                         /\ badges[b].criteria = "Complete 5 tasks"
                         /\ total >= BadgeThreshold
                         /\ ~Includes(students[p].badges, b)}
           IN  /\ due # {} =>
                    \E b \in due :
                      /\ students' = [students EXCEPT ![p].badges = Append(@, b)]
                      /\ resp'.newBadges = <<b>>
               /\ due = {} => students' = students /\ resp'.newBadges = <<>>]_vars

\* the badge was granted for completions in two courses, neither of which
\* reaches the threshold alone
BadgeAtThresholdReached ==
  /\ CompleteTaskSucceeded
  /\ resp.newBadges = <<1>>
  /\ Includes(students[users[resp.caller].studentProfile].badges, 1)
  /\ \A c \in CourseIds :
       /\ <<resp.caller, c>> \in DOMAIN progress
       /\ Len(progress[<<resp.caller, c>>].completedTasks) \in 1..(BadgeThreshold - 1)

\* C29: a badge that a completeTask call grants is added to the Student
\* profile that registration linked to the caller (User.studentProfile), and
\* the badges of no other profile change.
BadgeGoesToCaller ==
  [][\A p \in DOMAIN students :
       students'[p].badges # students[p].badges =>
         /\ resp'.op = "completeTask"
         /\ p = users[resp'.caller].studentProfile]_vars

\* C25: a Progress record has at most one taskProgress entry per task,
\* whatever submitTask calls were made for it and however they interleaved.
OneEntryPerTask ==
  \A k \in DOMAIN progress :
    \A i, j \in DOMAIN progress[k].taskProgress :
      progress[k].taskProgress[i].task = progress[k].taskProgress[j].task => i = j

\* C26: every stored Progress record has completedTasksCount <= totalTasks, so
\* that the completion percentage is never above 100.
CountWithinTotal ==
  \A k \in DOMAIN progress :
    progress[k].completedTasksCount <= progress[k].totalTasks

\* user u is in the students of course c
InStudents(u, c) == c \in DOMAIN courses /\ Includes(courses[c].students, u)

\* C27: enrollment is symmetric after any enroll, unenroll and delete-course
\* calls: a user is in course.students exactly when the course is in the
\* user's enrolledCourses, each at most once, and the coach who owns a course
\* is not among its students.
EnrollmentSymmetric ==
  \A u \in UserIds, c \in CourseIds :
    /\ InStudents(u, c) <=> Includes(users[u].enrolledCourses, c)
    /\ Occurrences(users[u].enrolledCourses, c) <= 1
    /\ c \in DOMAIN courses =>
         /\ Occurrences(courses[c].students, u) <= 1
         /\ ~Includes(courses[c].students, courses[c].coach)

\* a course has been deleted while two users are enrolled in the other one,
\* one of them the coach of the deleted course
EnrollmentSymmetricReached ==
  /\ resp.op = "deleteCourse" /\ resp.status = 200
  /\ DOMAIN courses = {2}
  /\ InStudents("u1", 2) /\ InStudents("u3", 2)
  /\ users["u1"].enrolledCourses = <<2>>

\* C28: the members of a group never hold the same user twice and never hold
\* the coach of the group.
MembersOnceWithoutCoach ==
  \A g \in DOMAIN groups :
    /\ \A u \in UserIds : Occurrences(groups[g].members, u) <= 1
    /\ groups[g].coach # NoUser => ~Includes(groups[g].members, groups[g].coach)

\* entry e of the new record is entry e of the old one but for the fields
\* named in `but`
SameEntryBut(new, old, but) ==
  \A f \in (DOMAIN old) \ but : new[f] = old[f]

\* a run of the script has these effects when only the fields in `but` of
\* the entries that existed may change
SyncEffects(but) ==
  /\ DOMAIN progress' = DOMAIN progress
  /\ \A k \in DOMAIN progress :
       LET old == progress[k]
           new == progress'[k]
       IN  /\ [new EXCEPT !.taskProgress = old.taskProgress] = old
           /\ \A t \in Range(new.completedTasks) :
                \E i \in DOMAIN new.taskProgress :
                  new.taskProgress[i].task = t /\ new.taskProgress[i].completed
           /\ Len(new.taskProgress) >= Len(old.taskProgress)
           /\ \A i \in DOMAIN old.taskProgress :
                SameEntryBut(new.taskProgress[i], old.taskProgress[i], but)
  /\ SyncedProgress(progress') = progress'

\* C30 as stated: after a run of the script every task in completedTasks has
\* an entry with completed = true, completedTasks and every field but
\* completed of the entries that existed are unchanged, and a second run
\* changes no record.
SyncOnlyCompletes ==
  [][resp'.op = "sync" => SyncEffects({"completed"})]_vars

\* C30 amended: as above, where an entry that existed and is marked completed
\* also has its completedAt set.
SyncCompletes ==
  [][resp'.op = "sync" => SyncEffects({"completed", "completedAt"})]_vars

\* a run has added the entry of one completed task and marked the entry of
\* another, which holds an upload
SyncCompletesReached ==
  /\ resp.op = "sync"
  /\ <<"u3", 1>> \in DOMAIN progress
  /\ LET doc == progress[<<"u3", 1>>]
     IN  /\ Len(doc.completedTasks) = 2
         /\ Len(doc.taskProgress) = 2
         /\ \A i \in 1..2 : doc.taskProgress[i].completed
         /\ doc.taskProgress[1].studentUploads # <<>>
         /\ doc.taskProgress[2].studentUploads = <<>>

====
